---- MODULE Spec2Model ----
(***************************************************************************)
(* The lexical scanner of the Marlowe translator (v1/translator/scanner.go) *)
(* as a state machine.  The reader's content is a sequence of one-character *)
(* strings; a Scan call is one action that runs the whole body of           *)
(* Scanner.Scan, the helpers integer, str, keyword, backup and              *)
(* resetPosition included.                                                  *)
(*                                                                          *)
(* The second part is the JSON encoding of the contract types of            *)
(* language/v1/core: json.Marshal over the struct declarations and their    *)
(* json tags, Constant.MarshalJSON and SetConstant.                         *)
(***************************************************************************)
EXTENDS Integers, Sequences, FiniteSets, TLC

VARIABLES
  input,     \* what the io.Reader handed to NewScanner delivers, item by item
  r,         \* read offset of scan.reader: the number of items consumed
  position,  \* scan.position
  out,       \* the tokens returned so far, in call order (testScanner's out)
  panic,     \* "nil", or the value of the panic that ended a Scan call
  from,      \* history: the read offset at which the last Scan call began
  pc,        \* codec: "idle", "new", "built", "encoded", "encoded twice",
             \* "decoded", "parsed", "rejected" or "reencoded"
  arg,       \* codec: the string handed to SetConstant, <<>> when there is none
  node,      \* codec: the value handed to json.Marshal
  doc,       \* codec: the document json.Marshal returned
  back       \* codec: what the way back gave: decode(doc), or the document
             \* json.Marshal wrote for the value decoded from doc; or the
             \* document of a second json.Marshal of node

scanVars == <<input, r, position, out, panic, from>>

codecVars == <<pc, arg, node, doc, back>>

vars == <<input, r, position, out, panic, from, pc, arg, node, doc, back>>

-----------------------------------------------------------------------------
(* Bounds of the model.                                                     *)

\* Longest input enumerated exhaustively over Alphabet.
MaxLen == 4

\* Longest input enumerated over the alphabet of the failing reader.
MaxFailLen == 4

\* Scan calls made after the first EOF token.
MaxEOFCalls == 2

-----------------------------------------------------------------------------
(* Token kinds, scanner.go lines 28-39 (iota).                              *)

EOF == 0
INVALID == 1
KEYWORD == 2
\* STRING in the source; that name is a TLA+ builtin.
T_STRING == 3
INT == 4
PARENS_L == 5
PARENS_R == 6
SQUARE_L == 7
SQUARE_R == 8
COMMA == 9

validKeywords ==
  << <<"L", "e", "t">>,
     <<"W", "h", "e", "n">>,
     <<"I", "f">>,
     <<"P", "a", "y">>,
     <<"A", "s", "s", "e", "r", "t">>,
     <<"C", "l", "o", "s", "e">>,
     <<"D", "e", "p", "o", "s", "i", "t">>,
     <<"N", "o", "t", "i", "f", "y">>,
     <<"C", "h", "o", "i", "c", "e">>,
     <<"C", "h", "o", "i", "c", "e", "I", "d">>,
     <<"B", "o", "u", "n", "d">>,
     <<"A", "v", "a", "i", "l", "a", "b", "l", "e", "M", "o", "n", "e", "y">>,
     <<"C", "o", "n", "s", "t", "a", "n", "t">>,
     <<"N", "e", "g", "V", "a", "l", "u", "e">>,
     <<"A", "d", "d", "V", "a", "l", "u", "e">>,
     <<"S", "u", "b", "V", "a", "l", "u", "e">>,
     <<"M", "u", "l", "V", "a", "l", "u", "e">>,
     <<"D", "i", "v", "V", "a", "l", "u", "e">>,
     <<"C", "h", "o", "i", "c", "e", "V", "a", "l", "u", "e">>,
     <<"T", "i", "m", "e", "I", "n", "t", "e", "r", "v", "a", "l", "V", "a", "l", "u", "e">>,
     <<"U", "s", "e", "V", "a", "l", "u", "e">>,
     <<"C", "o", "n", "d">>,
     <<"A", "n", "d", "O", "b", "s">>,
     <<"O", "r", "O", "b", "s">>,
     <<"N", "o", "t", "O", "b", "s">>,
     <<"C", "h", "o", "s", "e", "S", "o", "m", "e", "t", "h", "i", "n", "g">>,
     <<"V", "a", "l", "u", "e", "G", "E">>,
     <<"V", "a", "l", "u", "e", "G", "T">>,
     <<"V", "a", "l", "u", "e", "L", "E">>,
     <<"V", "a", "l", "u", "e", "L", "T">>,
     <<"V", "a", "l", "u", "e", "E", "Q">>,
     <<"T", "r", "u", "e", "O", "b", "s">>,
     <<"F", "a", "l", "s", "e", "O", "b", "s">> >>

\* The zero Position and the Position of a fresh scanner.
ZeroPosition == [Line |-> 0, Column |-> 0]

Token(type, value, pos) == [Type |-> type, Value |-> value, Position |-> pos]

-----------------------------------------------------------------------------
(* Character classes of package unicode, on the ASCII range.                *)

NUL == "NUL"   \* the rune 0 that ReadRune returns together with an error

Digits == {"0", "1", "2", "3", "4", "5", "6", "7", "8", "9"}

Letters ==
  {"a", "b", "c", "d", "e", "f", "g", "h", "i", "j", "k", "l", "m", "n", "o",
   "p", "q", "r", "s", "t", "u", "v", "w", "x", "y", "z", "A", "B", "C", "D",
   "E", "F", "G", "H", "I", "J", "K", "L", "M", "N", "O", "P", "Q", "R", "S",
   "T", "U", "V", "W", "X", "Y", "Z"}

\* Category P of ASCII; the symbols $ + < = > ^ ` | ~ are category S.
Puncts ==
  {"!", "\"", "#", "%", "&", "'", "(", ")", "*", ",", "-", ".", "/", ":", ";",
   "?", "@", "[", "\\", "]", "_", "{", "}"}

Spaces == {" ", "\t", "\n", "\r", "\f"}

IsSpace(c) == c \in Spaces

IsDigit(c) == c \in Digits

IsLetter(c) == c \in Letters

IsPunct(c) == c \in Puncts

-----------------------------------------------------------------------------
(* The buffered reader.  An item of the content is a character, or          *)
(* ReadFailure: a point where the underlying Read fails with an error that  *)
(* is not io.EOF.  bufio hands the error out once and clears it, so the     *)
(* failure is consumed by the ReadRune that reports it.                     *)

ReadFailure == "ReadFailure"

\* bufio.Reader.ReadRune at offset i of content rd.
ReadRune(rd, i) ==
  IF i >= Len(rd) THEN [rune |-> NUL, err |-> "EOF", r |-> i]
  ELSE IF rd[i + 1] = ReadFailure THEN [rune |-> NUL, err |-> "ERR", r |-> i + 1]
  ELSE [rune |-> rd[i + 1], err |-> "nil", r |-> i + 1]

\* The scanner after a ReadRune: the offset moves, and UnreadRune is valid
\* only after a ReadRune that returned a rune.
afterRead(sc, x) == [sc EXCEPT !.r = x.r, !.canUnread = (x.err = "nil")]

incColumn(sc) == [sc EXCEPT !.position.Column = @ + 1]

\* Mutant: the rune is unread, the column is left where it was.
backup_keepsColumn(sc) ==
  IF sc.canUnread
  THEN [sc EXCEPT !.r = @ - 1, !.canUnread = FALSE]
  ELSE [sc EXCEPT !.panic = "ErrInvalidUnreadRune"]

backup(sc) ==
  IF sc.canUnread
  THEN [sc EXCEPT !.r = @ - 1, !.canUnread = FALSE, !.position.Column = @ - 1]
  ELSE [sc EXCEPT !.panic = "ErrInvalidUnreadRune"]

\* Mutant: the newline itself is counted as the first column of the new line.
resetPosition_columnOne(sc) ==
  [sc EXCEPT !.position = [Line |-> @.Line + 1, Column |-> 1]]

resetPosition(sc) ==
  [sc EXCEPT !.position = [Line |-> @.Line + 1, Column |-> 0]]

\* Mutant: the lookup accepts any prefix of a keyword.
isValidKeyword_prefix(word) ==
  \E i \in 1..Len(validKeywords) :
    /\ Len(word) <= Len(validKeywords[i])
    /\ word = SubSeq(validKeywords[i], 1, Len(word))

isValidKeyword(word) ==
  \E i \in 1..Len(validKeywords) : word = validKeywords[i]

-----------------------------------------------------------------------------
(* The token readers.  Each returns the scanner it leaves and the captured  *)
(* text; a panic raised by backup leaves through sc.panic.                  *)

\* Mutant: the character that makes the integer invalid is consumed with it.
RECURSIVE integer_consuming(_, _, _)
integer_consuming(rd, sc, number) ==
  LET x == ReadRune(rd, sc.r)
      s1 == afterRead(sc, x)
      s2 == incColumn(s1)
  IN  IF x.err = "EOF" THEN [sc |-> s1, val |-> number, err |-> FALSE]
      ELSE IF IsLetter(x.rune) \/ IsPunct(x.rune)
        THEN [sc |-> s2, val |-> number, err |-> TRUE]
      ELSE IF IsDigit(x.rune)
        THEN integer_consuming(rd, s2, Append(number, x.rune))
      ELSE [sc |-> backup(s2), val |-> number, err |-> FALSE]

\* Mutant: only a letter makes the integer invalid, punctuation ends it.
RECURSIVE integer_lettersOnly(_, _, _)
integer_lettersOnly(rd, sc, number) ==
  LET x == ReadRune(rd, sc.r)
      s1 == afterRead(sc, x)
      s2 == incColumn(s1)
  IN  IF x.err = "EOF" THEN [sc |-> s1, val |-> number, err |-> FALSE]
      ELSE IF IsLetter(x.rune)
        THEN [sc |-> backup(s2), val |-> number, err |-> TRUE]
      ELSE IF IsDigit(x.rune)
        THEN integer_lettersOnly(rd, s2, Append(number, x.rune))
      ELSE [sc |-> backup(s2), val |-> number, err |-> FALSE]

RECURSIVE integer(_, _, _)
integer(rd, sc, number) ==
  LET x == ReadRune(rd, sc.r)
      s1 == afterRead(sc, x)
      s2 == incColumn(s1)
  IN  IF x.err = "EOF" THEN [sc |-> s1, val |-> number, err |-> FALSE]
      ELSE IF IsLetter(x.rune) \/ IsPunct(x.rune)
        THEN [sc |-> backup(s2), val |-> number, err |-> TRUE]
      ELSE IF IsDigit(x.rune)
        THEN integer(rd, s2, Append(number, x.rune))
      ELSE [sc |-> backup(s2), val |-> number, err |-> FALSE]

\* Mutant: at the end of input the text captured so far is dropped.
RECURSIVE str_dropsPartial(_, _, _, _)
str_dropsPartial(rd, sc, text, quote) ==
  LET x == ReadRune(rd, sc.r)
      s1 == afterRead(sc, x)
      s2 == incColumn(s1)
      q  == IF x.rune = "\"" THEN quote + 1 ELSE quote
  IN  IF x.err = "EOF" THEN [sc |-> s1, val |-> <<>>]
      ELSE IF q < 2 THEN str_dropsPartial(rd, s2, Append(text, x.rune), q)
      ELSE [sc |-> backup(s2), val |-> text]

RECURSIVE str(_, _, _, _)
str(rd, sc, text, quote) ==
  LET x == ReadRune(rd, sc.r)
      s1 == afterRead(sc, x)
      s2 == incColumn(s1)
      q  == IF x.rune = "\"" THEN quote + 1 ELSE quote
  IN  IF x.err = "EOF" THEN [sc |-> s1, val |-> text]
      ELSE IF q < 2 THEN str(rd, s2, Append(text, x.rune), q)
      ELSE [sc |-> backup(s2), val |-> text]

\* Mutant: the end of input falls through to backup, like any other
\* character that is not a letter.
RECURSIVE keyword_backupAtEOF(_, _, _)
keyword_backupAtEOF(rd, sc, text) ==
  LET x == ReadRune(rd, sc.r)
      s1 == afterRead(sc, x)
      s2 == incColumn(s1)
  IN  IF x.err = "nil" /\ IsLetter(x.rune)
      THEN keyword_backupAtEOF(rd, s2, Append(text, x.rune))
      ELSE [sc |-> backup(s2), val |-> text]

\* Mutant: the character that ends the word is not put back.
RECURSIVE keyword_noBackup(_, _, _)
keyword_noBackup(rd, sc, text) ==
  LET x == ReadRune(rd, sc.r)
      s1 == afterRead(sc, x)
      s2 == incColumn(s1)
  IN  IF x.err = "EOF" THEN [sc |-> s1, val |-> text]
      ELSE IF IsLetter(x.rune)
        THEN keyword_noBackup(rd, s2, Append(text, x.rune))
      ELSE [sc |-> s2, val |-> text]

RECURSIVE keyword(_, _, _)
keyword(rd, sc, text) ==
  LET x == ReadRune(rd, sc.r)
      s1 == afterRead(sc, x)
      s2 == incColumn(s1)
  IN  IF x.err = "EOF" THEN [sc |-> s1, val |-> text]
      ELSE IF IsLetter(x.rune) THEN keyword(rd, s2, Append(text, x.rune))
      ELSE [sc |-> backup(s2), val |-> text]

-----------------------------------------------------------------------------
(* The branches of Scanner.Scan's switch, then its loop.  A branch returns  *)
(* the scanner it leaves and the token; the token counts only when          *)
(* sc.panic is "nil".                                                       *)

\* Mutant: the column is counted before the end of input is noticed.
scanEOF_countsColumn(sc) ==
  [sc |-> incColumn(sc), tok |-> Token(EOF, <<>>, ZeroPosition)]

\* Mutant: both square brackets are returned as SQUARE_L.
scanStructural_oneSquare(sc, rune) ==
  LET type == CASE rune = "(" -> PARENS_L
                [] rune = ")" -> PARENS_R
                [] rune = "[" -> SQUARE_L
                [] rune = "]" -> SQUARE_L
                [] rune = "," -> COMMA
  IN  [sc |-> sc, tok |-> Token(type, <<rune>>, sc.position)]

scanEOF(sc) == [sc |-> sc, tok |-> Token(EOF, <<>>, ZeroPosition)]

scanStructural(sc, rune) ==
  LET type == CASE rune = "(" -> PARENS_L
                [] rune = ")" -> PARENS_R
                [] rune = "[" -> SQUARE_L
                [] rune = "]" -> SQUARE_R
                [] rune = "," -> COMMA
  IN  [sc |-> sc, tok |-> Token(type, <<rune>>, sc.position)]

scanString(rd, sc) ==
  LET b == backup(sc)
      s == str(rd, b, <<>>, 0)
  IN  [sc |-> s.sc, tok |-> Token(T_STRING, s.val, s.sc.position)]

\* Mutant: the digit read by Scan is not given back before integer runs.
scanInteger_noBackup(rd, sc) ==
  LET n == integer(rd, sc, <<>>)
  IN  IF n.err
      THEN [sc |-> n.sc, tok |-> Token(INVALID, n.val, n.sc.position)]
      ELSE [sc |-> n.sc, tok |-> Token(INT, n.val, n.sc.position)]

scanInteger(rd, sc) ==
  LET b == backup(sc)
      n == integer(rd, b, <<>>)
  IN  IF n.err
      THEN [sc |-> n.sc, tok |-> Token(INVALID, n.val, n.sc.position)]
      ELSE [sc |-> n.sc, tok |-> Token(INT, n.val, n.sc.position)]

scanKeyword(rd, sc) ==
  LET b  == backup(sc)
      kw == keyword(rd, b, <<>>)
  IN  IF isValidKeyword(kw.val)
      THEN [sc |-> kw.sc, tok |-> Token(KEYWORD, kw.val, kw.sc.position)]
      ELSE [sc |-> kw.sc, tok |-> Token(INVALID, kw.val, ZeroPosition)]

\* Mutant: the unrecognised character is put back after it was read.
scanInvalid_unread(sc, rune) ==
  [sc |-> backup(sc), tok |-> Token(INVALID, <<rune>>, sc.position)]

\* Mutant: the unrecognised character is returned without its position.
scanInvalid_noPosition(sc, rune) ==
  [sc |-> sc, tok |-> Token(INVALID, <<rune>>, ZeroPosition)]

scanInvalid(sc, rune) ==
  [sc |-> sc, tok |-> Token(INVALID, <<rune>>, sc.position)]

RECURSIVE scanLoop(_, _)
scanLoop(rd, sc) ==
  LET x == ReadRune(rd, sc.r)
      s1 == afterRead(sc, x)
      s2 == incColumn(s1)
  IN  IF x.err = "EOF" THEN scanEOF(s1)
      ELSE IF x.err # "nil"
        THEN [sc |-> [s1 EXCEPT !.panic = "ReadError"],
              tok |-> Token(EOF, <<>>, ZeroPosition)]
      ELSE IF x.rune = "\n" THEN scanLoop(rd, resetPosition(s2))
      ELSE IF x.rune \in {"(", ")", "[", "]", ","} THEN scanStructural(s2, x.rune)
      ELSE IF x.rune = "\"" THEN scanString(rd, s2)
      ELSE IF IsSpace(x.rune) THEN scanLoop(rd, s2)
      ELSE IF IsDigit(x.rune) THEN scanInteger(rd, s2)
      ELSE IF IsLetter(x.rune) THEN scanKeyword(rd, s2)
      ELSE scanInvalid(s2, x.rune)

-----------------------------------------------------------------------------
(* Inputs.                                                                  *)

SeqsUpTo(S, n) == UNION {[1..k -> S] : k \in 0..n}

\* The characters the exhaustive inputs are built from: one or two of each
\* class the scanner tells apart ("+" is a symbol, neither letter nor
\* punctuation; "I" and "f" spell the keyword If).
Alphabet == {"\n", " ", "(", ")", ",", "\"", "1", "I", "f", ".", "+"}

\* One character of every class and every structural character, for the
\* inputs that put each of them after a short prefix.
Followers ==
  {"(", ")", "[", "]", ",", "\"", ".", "_", "+", "x", "7", " ", "\t", "\n"}

FailAlphabet == {"\"", "1", "I", " ", "(", ReadFailure}

InvalidKeywordText ==
  <<"I", "n", "v", "a", "l", "i", "d", "K", "e", "y", "w", "o", "r", "d">>

ValidIntegersText ==
  <<"1", "4", "5", "4", " ", "4", "8", "4", "8", "8", "4", "4", "0", "3", "2",
    " ", "2", "2", "2", "3", "4", "5", "4">>

TwoIntegersText ==
  <<"1", "4", "5", "4", " ", "4", "8", "4", "8", "8", "4", "4", "0", "3", "2">>

InvalidIntegersText ==
  <<"1", "2", "3", ".", " ", "1", "_", "0", "0", "0", " ", "0", "b", "0", "1",
    " ", "0", "x", "f", "f">>

InvalidIntegerText == <<"1", "2", "3", ".">>

ValidStringsText ==
  <<"\"", "n", "a", "m", "e", "\"", " ", "\"", "B", "u", "y", "e", "r", "\"",
    " ", "\"", "L", "3", "3", "7", "\"", " ", "\"", "L", "e", "F", "t", " ",
    "&", " ", "R", "i", "g", "h", "t", "3", "\"">>

NewlineResetText == <<"(", " ", ")", "\n", "[", " ", "]">>

KeywordSet == {validKeywords[i] : i \in 1..Len(validKeywords)}

\* The constructor names of the Contract, Action, Value and Observation
\* types: the types and named constants the packages declare for them.
ConstructorNames ==
  {<<"C", "l", "o", "s", "e">>,
   <<"P", "a", "y">>,
   <<"I", "f">>,
   <<"W", "h", "e", "n">>,
   <<"L", "e", "t">>,
   <<"A", "s", "s", "e", "r", "t">>,
   <<"D", "e", "p", "o", "s", "i", "t">>,
   <<"C", "h", "o", "i", "c", "e">>,
   <<"N", "o", "t", "i", "f", "y">>,
   <<"A", "v", "a", "i", "l", "a", "b", "l", "e", "M", "o", "n", "e", "y">>,
   <<"C", "o", "n", "s", "t", "a", "n", "t">>,
   <<"N", "e", "g", "V", "a", "l", "u", "e">>,
   <<"A", "d", "d", "V", "a", "l", "u", "e">>,
   <<"S", "u", "b", "V", "a", "l", "u", "e">>,
   <<"M", "u", "l", "V", "a", "l", "u", "e">>,
   <<"D", "i", "v", "V", "a", "l", "u", "e">>,
   <<"C", "h", "o", "i", "c", "e", "V", "a", "l", "u", "e">>,
   <<"T", "i", "m", "e", "I", "n", "t", "e", "r", "v", "a", "l", "S", "t", "a", "r", "t">>,
   <<"T", "i", "m", "e", "I", "n", "t", "e", "r", "v", "a", "l", "E", "n", "d">>,
   <<"U", "s", "e", "V", "a", "l", "u", "e">>,
   <<"C", "o", "n", "d">>,
   <<"A", "n", "d", "O", "b", "s">>,
   <<"O", "r", "O", "b", "s">>,
   <<"N", "o", "t", "O", "b", "s">>,
   <<"C", "h", "o", "s", "e", "S", "o", "m", "e", "t", "h", "i", "n", "g">>,
   <<"V", "a", "l", "u", "e", "G", "E">>,
   <<"V", "a", "l", "u", "e", "G", "T">>,
   <<"V", "a", "l", "u", "e", "L", "T">>,
   <<"V", "a", "l", "u", "e", "L", "E">>,
   <<"V", "a", "l", "u", "e", "E", "Q">>,
   <<"T", "r", "u", "e", "O", "b", "s">>,
   <<"F", "a", "l", "s", "e", "O", "b", "s">>}

\* Letter sequences next to the vocabulary: a keyword cut short, without its
\* first letter, with a letter added, doubled, and in another case.
WordInputs ==
  KeywordSet
  \cup {SubSeq(w, 1, Len(w) - 1) : w \in KeywordSet}
  \cup {Tail(w) : w \in KeywordSet}
  \cup {Append(w, "s") : w \in KeywordSet}
  \cup {w \o w : w \in KeywordSet}
  \cup {<<"i", "f">>, <<"I", "F">>, <<"l", "e", "t">>, <<"L", "E", "T">>,
        <<"c", "l", "o", "s", "e">>, InvalidKeywordText}
  \cup ConstructorNames

TestInputs ==
  {ValidIntegersText, TwoIntegersText, InvalidIntegersText, InvalidIntegerText,
   ValidStringsText, NewlineResetText}

\* A digit run, a word, an open string or nothing, then one follower, then
\* one more character.
FollowInputs ==
  {p \o <<c>> \o t :
     p \in {<<>>, <<"4">>, <<"4", "2">>, <<"I", "f">>, <<"\"", "a">>},
     c \in Followers,
     t \in {<<>>, <<"5">>, <<"(">>}}

Inputs ==
  SeqsUpTo(Alphabet, MaxLen) \cup WordInputs \cup TestInputs \cup FollowInputs

FailingInputs == SeqsUpTo(FailAlphabet, MaxFailLen)

-----------------------------------------------------------------------------
(* The state machine.                                                       *)

Last(s) == s[Len(s)]

EOFCount(s) == Cardinality({i \in 1..Len(s) : s[i].Type = EOF})

\* No codec call is in progress.
codecIdle ==
  /\ pc = "idle"
  /\ arg = <<>>
  /\ node = <<"none">>
  /\ doc = <<"none">>
  /\ back = <<"none">>

\* NewScanner over a reader that never fails (a strings.Reader, as in the
\* tests).
Init ==
  /\ input \in Inputs
  /\ r = 0
  /\ position = [Line |-> 1, Column |-> 0]
  /\ out = <<>>
  /\ panic = "nil"
  /\ from = 0
  /\ codecIdle

\* NewScanner over a reader whose Read may fail.
InitFailing ==
  /\ input \in FailingInputs
  /\ r = 0
  /\ position = [Line |-> 1, Column |-> 0]
  /\ out = <<>>
  /\ panic = "nil"
  /\ from = 0
  /\ codecIdle

\* Mutant: a call may begin one character further on than the last one
\* ended.
Scan_skipping ==
  /\ panic = "nil"
  /\ EOFCount(out) <= MaxEOFCalls
  /\ \E k \in {0, 1} :
       /\ r + k <= Len(input)
       /\ LET res == scanLoop(input, [r |-> r + k, position |-> position,
                                      canUnread |-> FALSE, panic |-> "nil"])
          IN  /\ r' = res.sc.r
              /\ position' = res.sc.position
              /\ panic' = res.sc.panic
              /\ out' = IF res.sc.panic = "nil" THEN Append(out, res.tok) ELSE out
  /\ from' = r
  /\ UNCHANGED input
  /\ UNCHANGED codecVars

\* One call of Scanner.Scan.  A caller makes no call after a panic, and at
\* most MaxEOFCalls calls once EOF was returned.
Scan ==
  /\ panic = "nil"
  /\ EOFCount(out) <= MaxEOFCalls
  /\ LET res == scanLoop(input, [r |-> r, position |-> position,
                                 canUnread |-> FALSE, panic |-> "nil"])
     IN  /\ r' = res.sc.r
         /\ position' = res.sc.position
         /\ panic' = res.sc.panic
         /\ out' = IF res.sc.panic = "nil" THEN Append(out, res.tok) ELSE out
  /\ from' = r
  /\ UNCHANGED input
  /\ UNCHANGED codecVars

Next == Scan

Spec == Init /\ [][Next]_vars

SpecFailing == InitFailing /\ [][Next]_vars

-----------------------------------------------------------------------------
(* Integers.  Integer is big.Int: a sign and a magnitude of any length.     *)
(* The magnitude is kept as big.Int keeps it, a little-endian vector of     *)
(* words without leading zero words; the empty vector is zero.  Numerals    *)
(* are sequences of characters.                                             *)

\* The size of one word of a magnitude.
WordBase == 65536

DigitChars == <<"0", "1", "2", "3", "4", "5", "6", "7", "8", "9">>

DigitVal(c) == (CHOOSE i \in 1..10 : DigitChars[i] = c) - 1

\* nat.norm: drop the leading (most significant) zero words.
RECURSIVE norm(_)
norm(z) ==
  IF z = <<>> THEN <<>>
  ELSE IF z[Len(z)] = 0 THEN norm(SubSeq(z, 1, Len(z) - 1))
  ELSE z

\* z * y + c, word by word from the least significant word, the carry going
\* into the next word.
RECURSIVE mulAddWW(_, _, _)
mulAddWW(z, y, c) ==
  IF z = <<>> THEN (IF c = 0 THEN <<>> ELSE <<c>>)
  ELSE LET t == z[1] * y + c
       IN  <<t % WordBase>> \o mulAddWW(Tail(z), y, t \div WordBase)

\* z divided by the single word y, from the most significant word down:
\* the quotient words (not normalised) and the remainder.
RECURSIVE divW(_, _)
divW(z, y) ==
  IF z = <<>> THEN [q |-> <<>>, r |-> 0]
  ELSE LET hi == divW(Tail(z), y)
           t  == hi.r * WordBase + z[1]
       IN  [q |-> <<t \div y>> \o hi.q, r |-> t % y]

\* The magnitude written by a run of decimal digits.
RECURSIVE scanDigits(_, _)
scanDigits(z, s) ==
  IF s = <<>> THEN z
  ELSE scanDigits(mulAddWW(z, 10, DigitVal(s[1])), Tail(s))

\* The decimal digits of a magnitude, most significant first; none for zero.
RECURSIVE utoa(_)
utoa(z) ==
  IF z = <<>> THEN <<>>
  ELSE LET d == divW(z, 10)
       IN  utoa(norm(d.q)) \o <<DigitChars[d.r + 1]>>

\* big.Int.SetString(s, 10): an optional sign, then one or more decimal
\* digits and nothing else; ok is FALSE (the returned pointer is nil)
\* otherwise.  Zero never carries a sign.
SetString(s) ==
  LET signed == s # <<>> /\ s[1] \in {"+", "-"}
      body   == IF signed THEN Tail(s) ELSE s
      ok     == body # <<>> /\ \A i \in 1..Len(body) : body[i] \in Digits
      abs    == IF ok THEN norm(scanDigits(<<>>, body)) ELSE <<>>
  IN  [ok |-> ok, neg |-> signed /\ s[1] = "-" /\ abs # <<>>, abs |-> abs]

\* Mutant: zero is written with no digit at all.
String_noZero(x) == (IF x.neg THEN <<"-">> ELSE <<>>) \o utoa(x.abs)

\* big.Int.String(): base 10, "0" for zero, a leading "-" when negative.
String(x) ==
  IF x.abs = <<>> THEN <<"0">>
  ELSE (IF x.neg THEN <<"-">> ELSE <<>>) \o utoa(x.abs)

NilPointerDereference == "invalid memory address or nil pointer dereference"

\* Mutant: the number is kept in a 64-bit machine integer, four words; what
\* lies above wraps away.
SetConstant_uint64(s) ==
  LET num == SetString(s)
  IN  IF ~num.ok THEN [panic |-> NilPointerDereference, val |-> <<"none">>]
      ELSE [panic |-> "nil",
            val |-> <<"Constant",
                      [neg |-> num.neg,
                       abs |-> norm(SubSeq(num.abs, 1,
                                           IF Len(num.abs) < 4 THEN Len(num.abs)
                                                               ELSE 4))]>>]

\* SetConstant: the error of SetString is dropped and the pointer
\* dereferenced, which panics when s is no numeral.
SetConstant(s) ==
  LET num == SetString(s)
  IN  IF ~num.ok THEN [panic |-> NilPointerDereference, val |-> <<"none">>]
      ELSE [panic |-> "nil",
            val |-> <<"Constant", [neg |-> num.neg, abs |-> num.abs]>>]

\* Constant.MarshalJSON: the bytes of String(), with no quotes around them.
Constant_MarshalJSON(c) == <<"num", String(c[2])>>

-----------------------------------------------------------------------------
(* Values of the contract types and JSON documents.                         *)
(*                                                                          *)
(* A value of a Go type is a tuple that begins with the name of the type    *)
(* and goes on with its fields in declaration order; <<"nil">> is the nil   *)
(* interface.  A document is <<"obj", members>> with members a sequence of  *)
(* <<key, document>> pairs in the order written, <<"arr", items>>,          *)
(* <<"str", s>>, <<"num", digits>>, <<"bool", b>> or <<"null">>.            *)

Nil == <<"nil">>

Obj(members) == <<"obj", members>>

Arr(items) == <<"arr", items>>

Str(s) == <<"str", s>>

Num(digits) == <<"num", digits>>

Bool(b) == <<"bool", b>>

Null == <<"null">>

\* An integer literal of the source, from its digits.
NewInt(s) == LET num == SetString(s) IN [neg |-> num.neg, abs |-> num.abs]

\* A field of kind int or uint64: json.Marshal writes it in base 10.
marshalInt(x) == Num(String(x))

\* json.Marshal of a value held in an interface or a field: the encoding of
\* its dynamic type.
RECURSIVE marshal(_)

\* A slice field: the encodings of its elements, in order.
marshalSlice(xs) == Arr([i \in 1..Len(xs) |-> marshal(xs[i])])

\* Role: Name under role_token.
marshalRole(n) == Obj(<< <<"role_token", Str(n[2])>> >>)

\* Token: Symbol under currency_symbol, Name under token_name.
marshalToken(n) ==
  Obj(<< <<"currency_symbol", Str(n[2])>>, <<"token_name", Str(n[3])>> >>)

\* Mutant: the payee's party goes under a lower-case key.
marshalPayee_lowerCase(n) == Obj(<< <<"party", marshal(n[2])>> >>)

\* Payee has no tags: its field goes under its Go name.
marshalPayee(n) == Obj(<< <<"Party", marshal(n[2])>> >>)

\* Account has no tags.
marshalAccount(n) ==
  Obj(<< <<"AccountId", marshal(n[2])>>, <<"Token", marshal(n[3])>> >>)

marshalChoiceId(n) ==
  Obj(<< <<"choice_name", Str(n[2])>>, <<"choice_owner", marshal(n[3])>> >>)

\* Mutant: from carries the lower bound and to the upper bound.
marshalBound_lowerFirst(n) ==
  Obj(<< <<"from", marshalInt(n[3])>>, <<"to", marshalInt(n[2])>> >>)

\* Bound: Upper is tagged from, Lower is tagged to.
marshalBound(n) ==
  Obj(<< <<"from", marshalInt(n[2])>>, <<"to", marshalInt(n[3])>> >>)

\* Deposit has no tags: the fields go under their Go names.
marshalDeposit(n) ==
  Obj(<< <<"AccountId", marshal(n[2])>>, <<"Party", marshal(n[3])>>,
         <<"Token", marshal(n[4])>>, <<"Value", marshal(n[5])>> >>)

marshalChoice(n) ==
  Obj(<< <<"for_choice", marshal(n[2])>>,
         <<"choose_between", marshalSlice(n[3])>> >>)

\* Notify has no tags.
marshalNotify(n) == Obj(<< <<"Observation", marshal(n[2])>> >>)

marshalAvailableMoney(n) ==
  Obj(<< <<"amount_of_token", marshal(n[2])>>, <<"in_account", marshal(n[3])>> >>)

marshalChoiceValue(n) == Obj(<< <<"value_of_choice", marshal(n[2])>> >>)

marshalUseValue(n) == Obj(<< <<"use_value", Str(n[2])>> >>)

marshalNegValue(n) == Obj(<< <<"negate", marshal(n[2])>> >>)

marshalAddValue(n) ==
  Obj(<< <<"add", marshal(n[2])>>, <<"and", marshal(n[3])>> >>)

marshalMulValue(n) ==
  Obj(<< <<"multiply", marshal(n[2])>>, <<"times", marshal(n[3])>> >>)

\* Mutant: the minuend is written before the subtrahend.
marshalSubValue_valueFirst(n) ==
  Obj(<< <<"value", marshal(n[3])>>, <<"minus", marshal(n[2])>> >>)

marshalSubValue(n) ==
  Obj(<< <<"minus", marshal(n[2])>>, <<"value", marshal(n[3])>> >>)

marshalDivValue(n) ==
  Obj(<< <<"divide", marshal(n[2])>>, <<"by", marshal(n[3])>> >>)

\* Cond has no tags, and its Observation field is a bool.
marshalCond(n) ==
  Obj(<< <<"Observation", Bool(n[2])>>, <<"IfTrue", marshal(n[3])>>,
         <<"IfFalse", marshal(n[4])>> >>)

marshalAndObs(n) ==
  Obj(<< <<"both", marshal(n[2])>>, <<"and", marshal(n[3])>> >>)

marshalOrObs(n) ==
  Obj(<< <<"either", marshal(n[2])>>, <<"or", marshal(n[3])>> >>)

marshalNotObs(n) == Obj(<< <<"not", marshal(n[2])>> >>)

marshalChoseSomething(n) == Obj(<< <<"chose_something_for", marshal(n[2])>> >>)

\* Mutant: ValueGE is written with the second key of ValueGT.
marshalValueGE_gt(n) ==
  Obj(<< <<"value", marshal(n[2])>>, <<"gt", marshal(n[3])>> >>)

marshalValueGE(n) ==
  Obj(<< <<"value", marshal(n[2])>>, <<"ge_than", marshal(n[3])>> >>)

marshalValueGT(n) ==
  Obj(<< <<"value", marshal(n[2])>>, <<"gt", marshal(n[3])>> >>)

marshalValueLT(n) ==
  Obj(<< <<"value", marshal(n[2])>>, <<"lt", marshal(n[3])>> >>)

marshalValueLE(n) ==
  Obj(<< <<"value", marshal(n[2])>>, <<"le_than", marshal(n[3])>> >>)

marshalValueEQ(n) ==
  Obj(<< <<"value", marshal(n[2])>>, <<"equal_to", marshal(n[3])>> >>)

\* Case has no tags: its three fields go under their Go names, the Case
\* field included.
marshalCase(n) ==
  Obj(<< <<"Case", marshal(n[2])>>, <<"Action", marshal(n[3])>>,
         <<"Contract", marshal(n[4])>> >>)

marshalPay(n) ==
  Obj(<< <<"from_account", marshal(n[2])>>, <<"to", marshal(n[3])>>,
         <<"token", marshal(n[4])>>, <<"pay", marshal(n[5])>>,
         <<"then", marshal(n[6])>> >>)

marshalIf(n) ==
  Obj(<< <<"if", marshal(n[2])>>, <<"then", marshal(n[3])>>,
         <<"else", marshal(n[4])>> >>)

\* When has no tags.
marshalWhen(n) ==
  Obj(<< <<"Cases", marshalSlice(n[2])>>, <<"Timeout", marshal(n[3])>>,
         <<"Continue", marshal(n[4])>> >>)

\* Mutant: the continuation is written first.
marshalLet_thenFirst(n) ==
  Obj(<< <<"then", marshal(n[4])>>, <<"let", Str(n[2])>>,
         <<"be", marshal(n[3])>> >>)

marshalLet(n) ==
  Obj(<< <<"let", Str(n[2])>>, <<"be", marshal(n[3])>>,
         <<"then", marshal(n[4])>> >>)

marshalAssert(n) ==
  Obj(<< <<"assert", marshal(n[2])>>, <<"then", marshal(n[3])>> >>)

marshal(n) ==
  CASE n[1] = "nil"               -> Null
    [] n[1] = "CloseContract"     -> Str(n[2])
    [] n[1] = "Pay"               -> marshalPay(n)
    [] n[1] = "If"                -> marshalIf(n)
    [] n[1] = "When"              -> marshalWhen(n)
    [] n[1] = "Let"               -> marshalLet(n)
    [] n[1] = "Assert"            -> marshalAssert(n)
    [] n[1] = "Case"              -> marshalCase(n)
    [] n[1] = "Deposit"           -> marshalDeposit(n)
    [] n[1] = "Choice"            -> marshalChoice(n)
    [] n[1] = "Notify"            -> marshalNotify(n)
    [] n[1] = "ChoiceId"          -> marshalChoiceId(n)
    [] n[1] = "Bound"             -> marshalBound(n)
    [] n[1] = "Role"              -> marshalRole(n)
    [] n[1] = "Address"           -> Str(n[2])
    [] n[1] = "Payee"             -> marshalPayee(n)
    [] n[1] = "Account"           -> marshalAccount(n)
    [] n[1] = "Token"             -> marshalToken(n)
    [] n[1] = "POSIXTime"         -> marshalInt(n[2])
    [] n[1] = "AvailableMoney"    -> marshalAvailableMoney(n)
    [] n[1] = "Constant"          -> Constant_MarshalJSON(n)
    [] n[1] = "NegValue"          -> marshalNegValue(n)
    [] n[1] = "AddValue"          -> marshalAddValue(n)
    [] n[1] = "SubValue"          -> marshalSubValue(n)
    [] n[1] = "MulValue"          -> marshalMulValue(n)
    [] n[1] = "DivValue"          -> marshalDivValue(n)
    [] n[1] = "ChoiceValue"       -> marshalChoiceValue(n)
    [] n[1] = "TimeIntervalValue" -> Str(n[2])
    [] n[1] = "UseValue"          -> marshalUseValue(n)
    [] n[1] = "Cond"              -> marshalCond(n)
    [] n[1] = "AndObs"            -> marshalAndObs(n)
    [] n[1] = "OrObs"             -> marshalOrObs(n)
    [] n[1] = "NotObs"            -> marshalNotObs(n)
    [] n[1] = "ChoseSomething"    -> marshalChoseSomething(n)
    [] n[1] = "ValueGE"           -> marshalValueGE(n)
    [] n[1] = "ValueGT"           -> marshalValueGT(n)
    [] n[1] = "ValueLT"           -> marshalValueLT(n)
    [] n[1] = "ValueLE"           -> marshalValueLE(n)
    [] n[1] = "ValueEQ"           -> marshalValueEQ(n)
    [] n[1] = "BoolObs"           -> Bool(n[2])

\* The named values of the source.
Close == <<"CloseContract", "close">>

Ada == <<"Token", "", "">>

TimeIntervalStart == <<"TimeIntervalValue", "time_interval_start">>

TimeIntervalEnd == <<"TimeIntervalValue", "time_interval_end">>

TrueObs == <<"BoolObs", TRUE>>

FalseObs == <<"BoolObs", FALSE>>

-----------------------------------------------------------------------------
(* The values the codec is run on: the values the tests build, and every    *)
(* value of bounded depth over a few names, numbers and parties.            *)

MaxDepth == 2        \* nesting of values, observations and contracts

MaxCases == 2        \* cases of a When

MaxNumeralLen == 2   \* length of the strings tried on SetConstant

\* The numerals of the tests, the largest uint64, the first integers beyond
\* 64 and 128 bits, and strings that are no canonical numeral.
TestNumerals ==
  { <<"1">>, <<"0">>, <<"1", "0">>, <<"2", "0">>,
    <<"5", "0", "0", "0", "0", "0", "0">>,
    <<"5", "0", "0", "0", "0", "0", "0", "0">>,
    <<"1", "8", "4", "4", "6", "7", "4", "4", "0", "7", "3", "7", "0", "9",
      "5", "5", "1", "6", "1", "5">>,
    <<"1", "8", "4", "4", "6", "7", "4", "4", "0", "7", "3", "7", "0", "9",
      "5", "5", "1", "6", "1", "6">>,
    <<"-", "1", "8", "4", "4", "6", "7", "4", "4", "0", "7", "3", "7", "0",
      "9", "5", "5", "1", "6", "1", "7">>,
    <<"3", "4", "0", "2", "8", "2", "3", "6", "6", "9", "2", "0", "9", "3",
      "8", "4", "6", "3", "4", "6", "3", "3", "7", "4", "6", "0", "7", "4",
      "3", "1", "7", "6", "8", "2", "1", "1", "4", "5", "6">>,
    <<"6", "5", "5", "3", "6">>, <<"6", "5", "5", "3", "5">>,
    <<"4", "2", "9", "4", "9", "6", "7", "2", "9", "6">>,
    <<"0", "0", "7">>, <<"+", "5">>, <<"-", "0">>,
    <<"1", "2", "a">>, <<"1", ".", "5">>, <<"0", "x", "1", "0">>, <<" ", "1">> }

Numerals ==
  TestNumerals \cup SeqsUpTo({"0", "1", "9", "-", "a"}, MaxNumeralLen)

Const(s) == SetConstant(s).val

Parties == {<<"Role", "creditor">>, <<"Role", "debtor">>, <<"Address", "addr1">>}

Tokens == {Ada, <<"Token", "ab", "coin">>}

Payees == {<<"Payee", <<"Role", "creditor">> >>,
           <<"Account", <<"Role", "debtor">>, Ada>>}

ChoiceIds == {<<"ChoiceId", "option", <<"Role", "creditor">> >>}

Bounds == {<<"Bound", NewInt(<<"3">>), NewInt(<<"2">>)>>,
           <<"Bound", NewInt(<<"0">>),
             NewInt(<<"1", "8", "4", "4", "6", "7", "4", "4", "0", "7", "3",
                      "7", "0", "9", "5", "5", "1", "6", "1", "5">>)>>}

BoundLists == {<<>>} \cup {<<b>> : b \in Bounds}
                \cup {<<b, c>> : b \in Bounds, c \in Bounds}

Timeouts ==
  {<<"POSIXTime", NewInt(<<"1", "6", "6", "6", "0", "7", "8", "9", "7", "7",
                           "9", "2", "6">>)>>,
   <<"POSIXTime", NewInt(<<"0">>)>>}

One == Const(<<"1">>)

ValueLeaves ==
  {Const(s) : s \in {<<"1">>, <<"0">>, <<"-", "1">>,
                     <<"1", "8", "4", "4", "6", "7", "4", "4", "0", "7", "3",
                       "7", "0", "9", "5", "5", "1", "6", "1", "6">>}}
    \cup {TimeIntervalStart, TimeIntervalEnd, <<"UseValue", "val">>}
    \cup {<<"ChoiceValue", c>> : c \in ChoiceIds}
    \cup {<<"AvailableMoney", t, <<"Role", "debtor">> >> : t \in Tokens}

\* The values of nesting at most d: each operator over a value of nesting
\* d - 1 and the constant 1.
RECURSIVE Values(_)
Values(d) ==
  IF d = 0 THEN ValueLeaves
  ELSE LET V == Values(d - 1)
       IN  ValueLeaves
             \cup {<<"NegValue", v>> : v \in V}
             \cup {<<op, v, One>> : op \in {"AddValue", "MulValue", "DivValue"},
                                    v \in V}
             \cup {<<"SubValue", One, v>> : v \in V}
             \cup {<<"Cond", TRUE, v, One>> : v \in V}
             \cup {<<"Cond", FALSE, One, v>> : v \in ValueLeaves}

ObservationLeaves ==
  {TrueObs, FalseObs} \cup {<<"ChoseSomething", c>> : c \in ChoiceIds}

Comparisons == {"ValueGE", "ValueGT", "ValueLT", "ValueLE", "ValueEQ"}

RECURSIVE Observations(_)
Observations(d) ==
  IF d = 0 THEN ObservationLeaves
  ELSE LET O == Observations(d - 1)
           V == Values(d - 1)
       IN  ObservationLeaves
             \cup {<<op, v, One>> : op \in Comparisons, v \in V}
             \cup {<<"ValueGT", One, v>> : v \in ValueLeaves}
             \cup {<<"NotObs", o>> : o \in O}
             \cup {<<"AndObs", o, TrueObs>> : o \in O}
             \cup {<<"OrObs", FalseObs, o>> : o \in O}

Actions(d) ==
  {<<"Deposit", <<"Role", "seller">>, p, t, One>> : p \in Parties, t \in Tokens}
    \cup {<<"Deposit", <<"Role", "seller">>, <<"Role", "buyer">>, Ada, v>> :
            v \in Values(d)}
    \cup {<<"Choice", c, bs>> : c \in ChoiceIds, bs \in BoundLists}
    \cup {<<"Notify", o>> : o \in Observations(d)}

\* Case literals name Action and Contract; the Case field stays nil.
CaseLists(d) ==
  SeqsUpTo({<<"Case", Nil, a, Close>> : a \in Actions(0)}, 1)
    \cup {<< <<"Case", Nil, a, Close>> >> : a \in Actions(d)}
    \cup SeqsUpTo({<<"Case", Nil, <<"Notify", TrueObs>>, Close>>}
                    \cup {<<"Case", Nil, <<"Choice", c, <<>> >>, Close>> : c \in ChoiceIds},
                  MaxCases)

RECURSIVE Contracts(_)
Contracts(d) ==
  IF d = 0 THEN {Close}
  ELSE LET C == Contracts(d - 1)
           V == Values(d - 1)
           O == Observations(d - 1)
       IN  {Close}
             \cup {<<"Pay", <<"Role", "debtor">>, p, t, One, c>> :
                     p \in Payees, t \in Tokens, c \in C}
             \cup {<<"Pay", a, <<"Payee", a>>, Ada, v, Close>> :
                     a \in Parties, v \in V}
             \cup {<<"If", o, Close, Close>> : o \in O}
             \cup {<<"If", TrueObs, c, Close>> : c \in C}
             \cup {<<"If", FalseObs, Close, c>> : c \in C}
             \cup {<<"Let", "Number", v, Close>> : v \in V}
             \cup {<<"Let", "x", One, c>> : c \in C}
             \cup {<<"Assert", o, Close>> : o \in O}
             \cup {<<"Assert", TrueObs, c>> : c \in C}
             \cup {<<"When", cs, t, Close>> : cs \in CaseLists(d - 1),
                                             t \in Timeouts}
             \cup {<<"When", << <<"Case", Nil, <<"Notify", TrueObs>>, c>> >>, t, c>> :
                     c \in C, t \in Timeouts}

-----------------------------------------------------------------------------
(* The values the tests build and the documents they expect.                *)

TestTimeout ==
  <<"POSIXTime", NewInt(<<"1", "6", "6", "6", "0", "7", "8", "9", "7", "7",
                          "9", "2", "6">>)>>

LetTest == <<"Let", "Number", Const(<<"1">>), Close>>

LetDocument ==
  Obj(<< <<"let", Str("Number")>>, <<"be", Num(<<"1">>)>>,
         <<"then", Str("close")>> >>)

IfTest ==
  <<"If", <<"ValueGT", Const(<<"1">>), Const(<<"0">>)>>, Close, Close>>

IfDocument ==
  Obj(<< <<"if", Obj(<< <<"value", Num(<<"1">>)>>, <<"gt", Num(<<"0">>)>> >>)>>,
         <<"then", Str("close")>>, <<"else", Str("close")>> >>)

AssertTest ==
  <<"Assert", <<"ValueLT", Const(<<"0">>), Const(<<"1">>)>>, Close>>

AssertDocument ==
  Obj(<< <<"assert", Obj(<< <<"value", Num(<<"0">>)>>, <<"lt", Num(<<"1">>)>> >>)>>,
         <<"then", Str("close")>> >>)

PayTest ==
  <<"Pay", <<"Role", "debtor">>, <<"Payee", <<"Role", "creditor">>>>, Ada,
    Const(<<"5", "0", "0", "0", "0", "0", "0">>), Close>>

AdaDocument ==
  Obj(<< <<"currency_symbol", Str("")>>, <<"token_name", Str("")>> >>)

PayDocument ==
  Obj(<< <<"from_account", Obj(<< <<"role_token", Str("debtor")>> >>)>>,
         <<"to", Obj(<< <<"Party", Obj(<< <<"role_token", Str("creditor")>> >>)>> >>)>>,
         <<"token", AdaDocument>>,
         <<"pay", Num(<<"5", "0", "0", "0", "0", "0", "0">>)>>,
         <<"then", Str("close")>> >>)

\* setupWhenContract: one case with the action a and Close, the timeout
\* 1666078977926, then Close.
setupWhenContract(a) == <<"When", << <<"Case", Nil, a, Close>> >>, TestTimeout, Close>>

\* The document the tests expect of setupWhenContract for an action whose
\* document is d.
setupWhenDocument(d) ==
  Obj(<< <<"when", Arr(<< Obj(<< <<"case", d>>, <<"then", Str("close")>> >>) >>)>>,
         <<"timeout", Num(<<"1", "6", "6", "6", "0", "7", "8", "9", "7", "7",
                            "9", "2", "6">>)>>,
         <<"timeout_continuation", Str("close")>> >>)

ChoiceTest ==
  <<"Choice", <<"ChoiceId", "option", <<"Role", "creditor">>>>,
    << <<"Bound", NewInt(<<"3">>), NewInt(<<"2">>)>> >> >>

ChoiceDocument ==
  Obj(<< <<"for_choice",
           Obj(<< <<"choice_name", Str("option")>>,
                  <<"choice_owner", Obj(<< <<"role_token", Str("creditor")>> >>)>> >>)>>,
         <<"choose_between",
           Arr(<< Obj(<< <<"from", Num(<<"3">>)>>, <<"to", Num(<<"2">>)>> >>) >>)>> >>)

DepositTest ==
  <<"Deposit", <<"Role", "seller">>, <<"Role", "buyer">>, Ada,
    Const(<<"5", "0", "0", "0", "0", "0", "0", "0">>)>>

DepositDocument ==
  Obj(<< <<"into_account", Obj(<< <<"role_token", Str("seller")>> >>)>>,
         <<"party", Obj(<< <<"role_token", Str("buyer")>> >>)>>,
         <<"of_token", AdaDocument>>,
         <<"deposits", Num(<<"5", "0", "0", "0", "0", "0", "0", "0">>)>> >>)

NotifyTest ==
  <<"Notify", <<"ValueGT", <<"UseValue", "val">>, Const(<<"1", "0">>)>> >>

NotifyDocument ==
  Obj(<< <<"notify_if",
           Obj(<< <<"value", Obj(<< <<"use_value", Str("val")>> >>)>>,
                  <<"gt", Num(<<"1", "0">>)>> >>)>> >>)

TestNodes ==
  {Close, LetTest, IfTest, AssertTest, PayTest, setupWhenContract(ChoiceTest),
   setupWhenContract(DepositTest), setupWhenContract(NotifyTest)}

TestDocuments ==
  {Str("close"), LetDocument, IfDocument, AssertDocument, PayDocument,
   setupWhenDocument(ChoiceDocument), setupWhenDocument(DepositDocument),
   setupWhenDocument(NotifyDocument)}

Nodes ==
  Contracts(MaxDepth) \cup Values(MaxDepth) \cup Observations(MaxDepth)
    \cup Actions(1) \cup Parties \cup Tokens \cup Payees \cup ChoiceIds
    \cup Bounds
    \cup {<<"Case", Nil, a, Close>> : a \in Actions(0)}
    \cup TestNodes

-----------------------------------------------------------------------------
(* Decoding.  The repository has no decoder; decode is the structural       *)
(* inverse of the tag table of the specification: the key-set of an object  *)
(* selects the variant, a document whose key-set matches none is rejected,  *)
(* and so is a numeral with a character that is no digit.  Where the table  *)
(* is silent (the Party wrapper of a payee, an account, Cond, an address    *)
(* string) the shape that encoding writes is taken back.                    *)

DecodeError == <<"DecodeError">>

IsErr(n) == n[1] = "DecodeError"

\* The set of the keys of an object document.
keysOf(d) == {d[2][i][1] : i \in 1..Len(d[2])}

\* The document under the key k of the object d.
Field(d, k) == d[2][CHOOSE i \in 1..Len(d[2]) : d[2][i][1] = k][2]

RECURSIVE decode(_)

\* The rows of the tag table that are objects: the variant, the keys in the
\* order of the fields, and what each key holds: a node, a name (a bare
\* string), an int or a time (a bare number), a list (an array of nodes) or
\* a bool; "nil" stands for a field no key carries.
DecodeRows ==
  {<<"Let", <<"let", "be", "then">>, <<"name", "node", "node">> >>,
   <<"If", <<"if", "then", "else">>, <<"node", "node", "node">> >>,
   <<"Assert", <<"assert", "then">>, <<"node", "node">> >>,
   <<"Pay", <<"from_account", "to", "token", "pay", "then">>,
     <<"node", "node", "node", "node", "node">> >>,
   <<"When", <<"when", "timeout", "timeout_continuation">>,
     <<"list", "time", "node">> >>,
   <<"Case", <<"", "case", "then">>, <<"nil", "node", "node">> >>,
   <<"AvailableMoney", <<"amount_of_token", "in_account">>, <<"node", "node">> >>,
   <<"ChoiceValue", <<"value_of_choice">>, <<"node">> >>,
   <<"UseValue", <<"use_value">>, <<"name">> >>,
   <<"NegValue", <<"negate">>, <<"node">> >>,
   <<"AddValue", <<"add", "and">>, <<"node", "node">> >>,
   <<"SubValue", <<"minus", "value">>, <<"node", "node">> >>,
   <<"MulValue", <<"multiply", "times">>, <<"node", "node">> >>,
   <<"DivValue", <<"divide", "by">>, <<"node", "node">> >>,
   <<"AndObs", <<"both", "and">>, <<"node", "node">> >>,
   <<"OrObs", <<"either", "or">>, <<"node", "node">> >>,
   <<"NotObs", <<"not">>, <<"node">> >>,
   <<"ChoseSomething", <<"chose_something_for">>, <<"node">> >>,
   <<"ValueGE", <<"value", "ge_than">>, <<"node", "node">> >>,
   <<"ValueGT", <<"value", "gt">>, <<"node", "node">> >>,
   <<"ValueLT", <<"value", "lt">>, <<"node", "node">> >>,
   <<"ValueLE", <<"value", "le_than">>, <<"node", "node">> >>,
   <<"ValueEQ", <<"value", "equal_to">>, <<"node", "node">> >>,
   <<"ChoiceId", <<"choice_name", "choice_owner">>, <<"name", "node">> >>,
   <<"Bound", <<"from", "to">>, <<"int", "int">> >>,
   <<"Role", <<"role_token">>, <<"name">> >>,
   <<"Token", <<"currency_symbol", "token_name">>, <<"name", "name">> >>,
   <<"Deposit", <<"into_account", "party", "of_token", "deposits">>,
     <<"node", "node", "node", "node">> >>,
   <<"Choice", <<"for_choice", "choose_between">>, <<"node", "list">> >>,
   <<"Notify", <<"notify_if">>, <<"node">> >>,
   <<"Payee", <<"Party">>, <<"node">> >>,
   <<"Account", <<"AccountId", "Token">>, <<"node", "node">> >>,
   <<"Cond", <<"Observation", "IfTrue", "IfFalse">>, <<"bool", "node", "node">> >>}

\* The document f is what a field of the kind must hold.
fieldOk(kind, f) ==
  CASE kind = "node" -> ~IsErr(decode(f))
    [] kind = "name" -> f[1] = "str"
    [] kind \in {"int", "time"} -> f[1] = "num" /\ SetString(f[2]).ok
    [] kind = "bool" -> f[1] = "bool"
    [] kind = "list" ->
         f[1] = "arr" /\ \A i \in 1..Len(f[2]) : ~IsErr(decode(f[2][i]))

\* The field a document of the kind stands for.
fieldVal(kind, f) ==
  CASE kind = "node" -> decode(f)
    [] kind \in {"name", "bool"} -> f[2]
    [] kind = "int" -> NewInt(f[2])
    [] kind = "time" -> <<"POSIXTime", NewInt(f[2])>>
    [] kind = "list" -> [i \in 1..Len(f[2]) |-> decode(f[2][i])]

\* The variant of a row from the object d, whose key-set is the row's.
decodeRow(row, d) ==
  LET keys  == row[2]
      kinds == row[3]
      here  == {i \in 1..Len(keys) : kinds[i] # "nil"}
  IN  IF \E i \in here : ~fieldOk(kinds[i], Field(d, keys[i])) THEN DecodeError
      ELSE <<row[1]>> \o [i \in 1..Len(keys) |->
                            IF i \in here THEN fieldVal(kinds[i], Field(d, keys[i]))
                                          ELSE Nil]

\* Select the row by the key-set; reject when no row has it or a key comes
\* twice.
decodeObject(d) ==
  LET rows == {row \in DecodeRows :
                 {row[2][i] : i \in {k \in 1..Len(row[2]) : row[3][k] # "nil"}}
                   = keysOf(d)}
  IN  IF Cardinality(keysOf(d)) # Len(d[2]) \/ rows = {} THEN DecodeError
      ELSE decodeRow(CHOOSE row \in rows : TRUE, d)

decode(d) ==
  CASE d[1] = "str" ->
         (IF d[2] = "close" THEN Close
          ELSE IF d[2] = "time_interval_start" THEN TimeIntervalStart
          ELSE IF d[2] = "time_interval_end" THEN TimeIntervalEnd
          ELSE <<"Address", d[2]>>)
    [] d[1] = "bool" -> <<"BoolObs", d[2]>>
    [] d[1] = "num" -> (IF SetString(d[2]).ok THEN Const(d[2]) ELSE DecodeError)
    [] d[1] = "obj" -> decodeObject(d)
    [] OTHER -> DecodeError

\* Documents that arrive from outside: the documents of the tests, and
\* documents decode must reject.
Documents ==
  TestDocuments
    \cup {Obj(<< <<"foo", Null>> >>), Num(<<"1", "a">>), Null,
          Obj(<< <<"value", Num(<<"1">>)>>, <<"than", Num(<<"0">>)>> >>),
          Obj(<< <<"negate", Num(<<"-", "5">>)>> >>)}

-----------------------------------------------------------------------------
(* The codec as a state machine: a value is built, by SetConstant from a    *)
(* string or as a literal, handed to json.Marshal, as assertJson does, and  *)
(* the document decoded again; or a document arrives, is decoded, and the   *)
(* value handed to json.Marshal.                                            *)

InitCodec ==
  /\ input = <<>>
  /\ r = 0
  /\ position = [Line |-> 1, Column |-> 0]
  /\ out = <<>>
  /\ panic = "nil"
  /\ from = 0
  /\ pc = "new"
  /\ arg = <<>>
  /\ node = <<"none">>
  /\ doc = <<"none">>
  /\ back = <<"none">>

\* SetConstant(s): the Constant, or the panic of the nil dereference.
SetConstantCall ==
  /\ pc = "new"
  /\ panic = "nil"
  /\ \E s \in Numerals :
       LET res == SetConstant(s)
       IN  /\ arg' = s
           /\ panic' = res.panic
           /\ node' = res.val
           /\ pc' = IF res.panic = "nil" THEN "built" ELSE "new"
  /\ UNCHANGED <<input, r, position, out, from, doc, back>>

\* A composite literal of one of the types.
Construct ==
  /\ pc = "new"
  /\ panic = "nil"
  /\ \E n \in Nodes : node' = n
  /\ pc' = "built"
  /\ UNCHANGED <<scanVars, arg, doc, back>>

\* json.Marshal(node).
Marshal ==
  /\ pc = "built"
  /\ doc' = marshal(node)
  /\ pc' = "encoded"
  /\ UNCHANGED <<scanVars, arg, node, back>>

\* decode(doc), of the document json.Marshal has just returned.
Unmarshal ==
  /\ pc = "encoded"
  /\ back' = decode(doc)
  /\ pc' = "decoded"
  /\ UNCHANGED <<scanVars, arg, node, doc>>

\* A document arrives and is decoded; a document decode rejects ends here.
Receive ==
  /\ pc = "new"
  /\ panic = "nil"
  /\ \E d \in Documents :
       /\ doc' = d
       /\ node' = decode(d)
       /\ pc' = IF IsErr(decode(d)) THEN "rejected" ELSE "parsed"
  /\ UNCHANGED <<scanVars, arg, back>>

\* json.Marshal of the value decoded from the document that arrived.
Remarshal ==
  /\ pc = "parsed"
  /\ back' = marshal(node)
  /\ pc' = "reencoded"
  /\ UNCHANGED <<scanVars, arg, node, doc>>

\* json.Marshal(node) once more, on the value already encoded.
MarshalAgain ==
  /\ pc = "encoded"
  /\ back' = marshal(node)
  /\ pc' = "encoded twice"
  /\ UNCHANGED <<scanVars, arg, node, doc>>

NextCodec ==
  \/ SetConstantCall
  \/ Construct
  \/ Marshal
  \/ MarshalAgain
  \/ Unmarshal
  \/ Receive
  \/ Remarshal

SpecCodec == InitCodec /\ [][NextCodec]_vars

-----------------------------------------------------------------------------
(* What the properties below speak about: where the last Scan call began,   *)
(* read off the input alone.                                                *)

Min(S) == CHOOSE m \in S : \A k \in S : m <= k

\* A Scan call has returned a token.
Scanned == out # <<>> /\ panic = "nil"

\* Index of the first non-whitespace character at or after the offset the
\* last Scan call began at; 0 when there is none.
TokenStart ==
  LET rest == {i \in (from + 1)..Len(input) : ~IsSpace(input[i])}
  IN  IF rest = {} THEN 0 ELSE Min(rest)

\* Index of the last digit of the digit run that begins at index s.
DigitRunEnd(s) ==
  Min({e \in s..Len(input) : e = Len(input) \/ ~IsDigit(input[e + 1])})

\* Index of the first double quote after index s; 0 when there is none.
ClosingQuote(s) ==
  LET qs == {i \in (s + 1)..Len(input) : input[i] = "\""}
  IN  IF qs = {} THEN 0 ELSE Min(qs)

\* The tokens returned before the first EOF token, as <<kind, text>> pairs.
BeforeEOF ==
  LET eofs == {i \in 1..Len(out) : out[i].Type = EOF}
      n    == IF eofs = {} THEN Len(out) ELSE Min(eofs) - 1
  IN  [i \in 1..n |-> <<out[i].Type, out[i].Value>>]

SawEOF == Scanned /\ EOFCount(out) > 0

LexLeq(p, q) ==
  p.Line < q.Line \/ (p.Line = q.Line /\ p.Column <= q.Column)

\* Index of the first non-whitespace character after the read cursor;
\* Len(input) + 1 when there is none.
NextStart ==
  Min({i \in (r + 1)..(Len(input) + 1) : i > Len(input) \/ ~IsSpace(input[i])})

\* The indices of the newlines in input[a..b].
NewlinesIn(a, b) == {i \in a..b : input[i] = "\n"}

Max(S) == CHOOSE m \in S : \A k \in S : k <= m

\* The tokens returned so far as <<kind, line, column>> triples.
Placed == [i \in 1..Len(out) |-> <<out[i].Type, out[i].Position.Line,
                                    out[i].Position.Column>>]

-----------------------------------------------------------------------------
(* Properties.                                                              *)

\* C1: a Scan call that begins at an opening double quote which has a
\* matching closing quote returns a STRING token whose Value is the text from
\* the opening quote up to and including the closing quote, and leaves the
\* cursor after the closing quote.
C1_StringHoldsBothQuotes ==
  (Scanned /\ TokenStart # 0 /\ input[TokenStart] = "\""
     /\ ClosingQuote(TokenStart) # 0)
  => /\ Last(out).Type = T_STRING
     /\ Last(out).Value = SubSeq(input, TokenStart, ClosingQuote(TokenStart))
     /\ r = ClosingQuote(TokenStart)

\* C2: every token other than EOF, of every kind, carries in Position the
\* scanner's (line, column) at the token's last consumed character.
C2_PositionOnEveryToken ==
  (Scanned /\ Last(out).Type # EOF) => Last(out).Position = position

\* C3 as stated: scanning 123. until EOF yields exactly one INVALID token,
\* with Value 123, and nothing else before EOF.
C3_OneInvalidToken ==
  (input = InvalidIntegerText /\ SawEOF)
  => BeforeEOF = << <<INVALID, <<"1", "2", "3">> >> >>

\* C3 amended: scanning 123. until EOF yields exactly two tokens before EOF,
\* an INVALID token with Value 123 and then an INVALID token with Value "."
\* (the dot is left for the next call, which returns it as a
\* single-character INVALID token).
C3_InvalidThenDot ==
  (input = InvalidIntegerText /\ SawEOF)
  => BeforeEOF = << <<INVALID, <<"1", "2", "3">> >>, <<INVALID, <<".">> >> >>

C3_Witness == input = InvalidIntegerText /\ SawEOF /\ Len(out) = 3

\* C4: a Scan call that begins at a digit run which is directly followed by
\* a letter or a punctuation character returns an INVALID token whose Value
\* is exactly the digit run and leaves the cursor at the end of the run, so
\* the next call starts at the offending character.
C4_DigitsThenLetterOrPunct ==
  (Scanned /\ TokenStart # 0 /\ IsDigit(input[TokenStart])
     /\ DigitRunEnd(TokenStart) < Len(input)
     /\ input[DigitRunEnd(TokenStart) + 1] \in Letters \cup Puncts)
  => /\ Last(out).Type = INVALID
     /\ Last(out).Value = SubSeq(input, TokenStart, DigitRunEnd(TokenStart))
     /\ r = DigitRunEnd(TokenStart)

\* The digit run 42 directly followed by ")" was returned as INVALID, and the
\* call after it returned the ")" itself.
C4_Witness ==
  /\ Len(input) >= 3 /\ SubSeq(input, 1, 3) = <<"4", "2", ")">>
  /\ Len(out) = 2
  /\ <<out[1].Type, out[1].Value>> = <<INVALID, <<"4", "2">> >>
  /\ <<out[2].Type, out[2].Value>> = <<PARENS_R, <<")">> >>

\* C5: an input that is exactly one keyword of the vocabulary scans to one
\* KEYWORD token with that Value and then EOF; any other sequence of letters
\* scans to one INVALID token carrying the word and then EOF.
C5_KeywordClosure ==
  (SawEOF /\ input # <<>> /\ \A i \in 1..Len(input) : input[i] \in Letters)
  => /\ Len(out) >= 2
     /\ out[1].Type = (IF input \in KeywordSet THEN KEYWORD ELSE INVALID)
     /\ out[1].Value = input
     /\ out[2].Type = EOF

\* The keyword ChoiceId was scanned to EOF as one KEYWORD token (not as the
\* keyword Choice followed by Id).
C5_Witness ==
  /\ SawEOF
  /\ input = <<"C", "h", "o", "i", "c", "e", "I", "d">>
  /\ out[1].Type = KEYWORD
  /\ Len(out) = 2

\* C6: a Scan call that begins at a digit run which ends at whitespace or at
\* the end of the input returns one INT token whose Value is the run,
\* character for character, and leaves the cursor at the end of the run; the
\* input 1454 4848844032 yields the two INT tokens 1454 and 4848844032.
C6_DigitRunIsInt ==
  /\ (Scanned /\ TokenStart # 0 /\ IsDigit(input[TokenStart])
        /\ (DigitRunEnd(TokenStart) = Len(input)
              \/ IsSpace(input[DigitRunEnd(TokenStart) + 1])))
     => /\ Last(out).Type = INT
        /\ Last(out).Value = SubSeq(input, TokenStart, DigitRunEnd(TokenStart))
        /\ r = DigitRunEnd(TokenStart)
  /\ (input = TwoIntegersText /\ SawEOF)
     => BeforeEOF = << <<INT, <<"1", "4", "5", "4">> >>,
                       <<INT, <<"4", "8", "4", "8", "8", "4", "4", "0", "3", "2">> >> >>

C6_Witness ==
  /\ input = TwoIntegersText
  /\ Len(out) = 2
  /\ out[2].Type = INT
  /\ Len(out[2].Value) = 10

\* C7: a Scan call made when the input is exhausted returns EOF and leaves
\* the read cursor and the position as they were; since the cursor stays at
\* the end, so does every later call.
C7_EOFForever ==
  [][r = Len(input)
       => Last(out').Type = EOF /\ r' = r /\ position' = position]_vars

\* EOF was returned three times in a row after a token.
C7_Witness ==
  /\ Len(out) >= 4
  /\ out[1].Type # EOF
  /\ \A i \in 2..4 : out[i].Type = EOF

\* C8: over a reader that never fails no Scan call panics, an EOF token is
\* returned only when the whole input is consumed, and a call that returns
\* INVALID has consumed at least one character, so the calls after an
\* INVALID token go on through the rest of the input.
C8_NeverAborts ==
  /\ panic = "nil"
  /\ EOFCount(out) > 0 => r = Len(input)
  /\ (out # <<>> /\ Last(out).Type = INVALID) => r > from

\* An INVALID token was followed by two more tokens and then EOF.
C8_Witness ==
  /\ Len(out) = 4
  /\ out[1].Type = INVALID
  /\ out[2].Type \notin {EOF, INVALID}
  /\ out[3].Type = INVALID
  /\ out[4].Type = EOF

\* C9: once a Scan call has consumed a read failure the call has panicked,
\* and nothing was read past the failure.
C9_ReadFailurePropagates ==
  (\E i \in 1..r : input[i] = ReadFailure)
  => panic # "nil" /\ input[r] = ReadFailure

\* C10: the Positions of the tokens returned before EOF are non-decreasing
\* in lexicographic (line, column) order.
C10_PositionsNonDecreasing ==
  \A i, j \in 1..Len(out) :
    (i < j /\ out[i].Type # EOF /\ out[j].Type # EOF)
    => LexLeq(out[i].Position, out[j].Position)

\* C11: every Scan call leaves the line increased by exactly the number of
\* newlines it skipped before its token; when the token is a bracket,
\* parenthesis or comma that follows such a newline its column is its
\* distance from the last newline skipped (1 for the first character of the
\* line), and otherwise the column grows by the characters consumed.
\* Scanning ( ) newline [ ] yields PARENS_L at (1,1), PARENS_R at (1,3),
\* SQUARE_L at (2,1), SQUARE_R at (2,3), then EOF at the zero Position.
C11_NewlineResetsColumn ==
  /\ []((input = NewlineResetText /\ SawEOF)
        => SubSeq(Placed, 1, 5) = << <<PARENS_L, 1, 1>>, <<PARENS_R, 1, 3>>,
                                     <<SQUARE_L, 2, 1>>, <<SQUARE_R, 2, 3>>,
                                     <<EOF, 0, 0>> >>)
  /\ [][LET s  == NextStart
            nl == NewlinesIn(r + 1, s - 1)
        IN  panic' = "nil"
            => /\ position'.Line = position.Line + Cardinality(nl)
               /\ (s <= Len(input) /\ input[s] \in {"(", ")", "[", "]", ","})
                  => /\ r' = s
                     /\ position'.Column =
                          (IF nl = {} THEN position.Column + (s - r)
                                      ELSE s - Max(nl))
                     /\ Last(out').Position = position']_vars

\* ( ) newline [ ] was scanned to EOF, and the bracket that opens the second
\* line was placed on line 2.
C11_Witness ==
  /\ input = NewlineResetText
  /\ SawEOF
  /\ Len(out) = 5
  /\ out[3].Position.Line = 2

\* C12: decoding the document json.Marshal wrote for a value gives the value
\* back, structurally equal; and encoding the value decoded from a
\* well-formed document of the tag table gives the document back.
C12_RoundTrip ==
  /\ pc = "decoded" => back = node
  /\ pc = "reencoded" => back = doc

\* z * m + c on a little-endian vector of decimal digits.
RECURSIVE decMulAdd(_, _, _)
decMulAdd(ds, m, c) ==
  IF ds = <<>>
  THEN (IF c = 0 THEN <<>> ELSE <<c % 10>> \o decMulAdd(<<>>, m, c \div 10))
  ELSE LET t == ds[1] * m + c
       IN  <<t % 10>> \o decMulAdd(Tail(ds), m, t \div 10)

\* The decimal digits, least significant first, of the number whose words
\* are w: w[1] + WordBase * (the number of the words after it).
RECURSIVE DecimalOf(_)
DecimalOf(w) ==
  IF w = <<>> THEN <<>> ELSE decMulAdd(DecimalOf(Tail(w)), WordBase, w[1])

\* The base-10 numeral of the integer x.
NumeralOf(x) ==
  LET ds == DecimalOf(x.abs)
  IN  IF ds = <<>> THEN <<"0">>
      ELSE (IF x.neg THEN <<"-">> ELSE <<>>)
             \o [i \in 1..Len(ds) |-> DigitChars[ds[Len(ds) + 1 - i] + 1]]

\* A canonical numeral: 0, or an optional minus sign and digits that do not
\* begin with 0.
IsCanonical(s) ==
  \/ s = <<"0">>
  \/ LET body == IF s # <<>> /\ s[1] = "-" THEN Tail(s) ELSE s
     IN  /\ body # <<>>
         /\ body[1] \in Digits \ {"0"}
         /\ \A i \in 1..Len(body) : body[i] \in Digits

\* C13: the document of a Constant is the bare number whose digits are the
\* base-10 numeral of its integer, whatever the number of words of the
\* integer; and the document of a Constant built by SetConstant from a
\* canonical numeral is the bare number with exactly the digits given.
C13_ConstantIsBareNumeral ==
  /\ (pc = "encoded" /\ node[1] = "Constant")
     => doc = Num(NumeralOf(node[2]))
  /\ (pc = "encoded" /\ IsCanonical(arg)) => doc = Num(arg)

\* 2^128 went through SetConstant and json.Marshal: an integer of more than
\* 64 bits, written out with all its 39 digits.
C13_Witness ==
  /\ pc = "encoded"
  /\ Len(arg) = 39
  /\ Len(node[2].abs) > 4
  /\ doc = Num(arg)

\* The keys of an object document, in the order written.
Keys(d) == [i \in 1..Len(d[2]) |-> d[2][i][1]]

\* The documents under the keys of an object document, in the same order.
Members(d) == [i \in 1..Len(d[2]) |-> d[2][i][2]]

IsObj(d) == d[1] = "obj"

\* A value was handed to json.Marshal and the document is there.
Encoded == pc = "encoded"

\* C14: the document of a When is an object with exactly the keys when,
\* timeout, timeout_continuation, in that order, holding the array of the
\* documents of the cases in order, the timeout as a bare number and the
\* document of the continuation; the document of a Case is an object with
\* the keys case, then, holding the documents of the action and of the
\* contract; and the one-case Choice example with timeout 1666078977926 gives
\* the document the test expects.
C14_WhenAndCaseKeys ==
  /\ (Encoded /\ node[1] = "When")
     => /\ IsObj(doc)
        /\ Keys(doc) = <<"when", "timeout", "timeout_continuation">>
        /\ Members(doc) = <<marshalSlice(node[2]), marshalInt(node[3][2]),
                            marshal(node[4])>>
  /\ (Encoded /\ node[1] = "Case")
     => /\ IsObj(doc)
        /\ Keys(doc) = <<"case", "then">>
        /\ Members(doc) = <<marshal(node[3]), marshal(node[4])>>
  /\ (Encoded /\ node = setupWhenContract(ChoiceTest))
     => doc = setupWhenDocument(ChoiceDocument)

ValueTable ==
  [NegValue       |-> <<"negate">>,
   AddValue       |-> <<"add", "and">>,
   SubValue       |-> <<"minus", "value">>,
   MulValue       |-> <<"multiply", "times">>,
   DivValue       |-> <<"divide", "by">>,
   AvailableMoney |-> <<"amount_of_token", "in_account">>,
   ChoiceValue    |-> <<"value_of_choice">>,
   UseValue       |-> <<"use_value">>,
   ValueGE        |-> <<"value", "ge_than">>,
   ValueGT        |-> <<"value", "gt">>,
   ValueLT        |-> <<"value", "lt">>,
   ValueLE        |-> <<"value", "le_than">>,
   ValueEQ        |-> <<"value", "equal_to">>,
   AndObs         |-> <<"both", "and">>,
   OrObs          |-> <<"either", "or">>,
   NotObs         |-> <<"not">>,
   ChoseSomething |-> <<"chose_something_for">>]

\* C17: the document of every Value and Observation variant of the tag table
\* is exactly its row: an object with the keys of the row, in order, each
\* holding the document of the field in that place (the name itself for
\* UseValue); TimeIntervalStart and TimeIntervalEnd are the bare strings
\* time_interval_start and time_interval_end, TrueObs and FalseObs the bare
\* booleans true and false.
C17_ValueAndObservationRows ==
  /\ (Encoded /\ node[1] \in DOMAIN ValueTable)
     => /\ IsObj(doc)
        /\ Keys(doc) = ValueTable[node[1]]
        /\ Members(doc) =
             (IF node[1] = "UseValue" THEN <<Str(node[2])>>
              ELSE [i \in 1..(Len(node) - 1) |-> marshal(node[i + 1])])
  /\ (Encoded /\ node = TimeIntervalStart) => doc = Str("time_interval_start")
  /\ (Encoded /\ node = TimeIntervalEnd) => doc = Str("time_interval_end")
  /\ (Encoded /\ node = TrueObs) => doc = Bool(TRUE)
  /\ (Encoded /\ node = FalseObs) => doc = Bool(FALSE)

\* A comparison whose left side is a subtraction was encoded: value and
\* ge_than outside, minus and value inside.
C17_Witness ==
  /\ Encoded
  /\ node[1] = "ValueGE"
  /\ node[2][1] = "SubValue"
  /\ Keys(doc) = <<"value", "ge_than">>
  /\ Keys(Members(doc)[1]) = <<"minus", "value">>

C19_DepositAndNotifyKeys ==
  /\ (Encoded /\ node[1] = "Deposit")
     => /\ IsObj(doc)
        /\ Keys(doc) = <<"into_account", "party", "of_token", "deposits">>
        /\ Members(doc) = [i \in 1..4 |-> marshal(node[i + 1])]
  /\ (Encoded /\ node[1] = "Notify")
     => doc = Obj(<< <<"notify_if", marshal(node[2])>> >>)
  /\ (Encoded /\ node = setupWhenContract(DepositTest))
     => doc = setupWhenDocument(DepositDocument)
  /\ (Encoded /\ node = setupWhenContract(NotifyTest))
     => doc = setupWhenDocument(NotifyDocument)

\* One value of every type that json.Marshal writes as an object.
ObjectSamples ==
  {CHOOSE n \in Nodes : n[1] = t : t \in {m[1] : m \in {n \in Nodes : IsObj(marshal(n))}}}

Malformed(s) ==
  LET body == IF s # <<>> /\ s[1] \in {"+", "-"} THEN Tail(s) ELSE s
  IN  body = <<>> \/ \E i \in 1..Len(body) : body[i] \notin Digits

\* C21: after SetConstant was called on a string that is no numeral the
\* program has not panicked, and what the call gave is an error value, not a
\* Constant.
C21_MalformedNumeralIsError ==
  (arg # <<>> /\ Malformed(arg)) => (panic = "nil" /\ IsErr(node))

\* A well-formed JSON document: the bytes json.Marshal accepts from a
\* Marshaler and returns.  A bare number is an optional minus sign and
\* digits without a leading zero; the keys of an object are distinct.
RECURSIVE IsDocument(_)
IsDocument(d) ==
  CASE d[1] = "obj" ->
         /\ Cardinality(keysOf(d)) = Len(d[2])
         /\ \A i \in 1..Len(d[2]) : IsDocument(d[2][i][2])
    [] d[1] = "arr" -> \A i \in 1..Len(d[2]) : IsDocument(d[2][i])
    [] d[1] = "str" -> Len(d) = 2
    [] d[1] = "num" -> IsCanonical(d[2]) \/ d[2] = <<"-", "0">>
    [] d[1] = "bool" -> d[2] \in BOOLEAN
    [] d[1] = "null" -> Len(d) = 1
    [] OTHER -> FALSE

C23_ConstructorsAreKeywords ==
  (SawEOF /\ input \in ConstructorNames)
  => /\ input \in KeywordSet
     /\ Len(out) >= 2
     /\ out[1].Type = KEYWORD
     /\ out[1].Value = input
     /\ out[2].Type = EOF

\* The first n tokens a scanner in the state sc returns over rd.
RECURSIVE Rescan(_, _, _)
Rescan(rd, sc, n) ==
  IF n = 0 THEN <<>>
  ELSE LET res == scanLoop(rd, [sc EXCEPT !.canUnread = FALSE])
       IN  <<res.tok>> \o Rescan(rd, res.sc, n - 1)

\* The state NewScanner leaves.
Fresh ==
  [r |-> 0, position |-> [Line |-> 1, Column |-> 0], canUnread |-> FALSE,
   panic |-> "nil"]

StructuralKind ==
  [c \in {"(", ")", "[", "]", ","} |->
     CASE c = "(" -> PARENS_L
       [] c = ")" -> PARENS_R
       [] c = "[" -> SQUARE_L
       [] c = "]" -> SQUARE_R
       [] c = "," -> COMMA]

\* C25: a Scan call whose first character after the whitespace is one of
\* ( ) [ ] ,  returns one token of the kind dedicated to that character, with
\* that character as its Value, and leaves the read cursor just after it,
\* whatever comes next.
C25_StructuralCharacters ==
  (Scanned /\ TokenStart > 0 /\ input[TokenStart] \in DOMAIN StructuralKind)
  => /\ Last(out).Type = StructuralKind[input[TokenStart]]
     /\ Last(out).Value = <<input[TokenStart]>>
     /\ r = TokenStart

\* A closing square bracket after a digit run and before a digit was
\* returned as SQUARE_R, the cursor between the bracket and the digit.
C25_Witness ==
  /\ input = <<"4", "]", "5">>
  /\ Len(out) = 2
  /\ out[2].Type = SQUARE_R
  /\ out[2].Value = <<"]">>
  /\ r = 2

\* The characters Scan has no case for: not whitespace, structural, a double
\* quote, a digit or a letter.
IsOther(c) ==
  /\ ~IsSpace(c)
  /\ c \notin {"(", ")", "[", "]", ",", "\""}
  /\ ~IsDigit(c)
  /\ ~IsLetter(c)

\* C26: a Scan call whose first character after the whitespace is none of
\* whitespace, structural, double quote, digit or letter returns one INVALID
\* token whose Value is that character and whose Position is the line and the
\* column the scanner stands at after it, and consumes only that character.
C26_OtherCharacterIsInvalid ==
  (Scanned /\ TokenStart > 0 /\ IsOther(input[TokenStart]))
  => /\ Last(out).Type = INVALID
     /\ Last(out).Value = <<input[TokenStart]>>
     /\ Last(out).Position = position
     /\ Last(out).Position.Line >= 1
     /\ Last(out).Position.Column >= 1
     /\ r = TokenStart

\* A plus sign after a space and before a digit was returned as INVALID at
\* line 1, column 2, the cursor between the sign and the digit.
C26_Witness ==
  /\ input = <<" ", "+", "1">>
  /\ Len(out) = 1
  /\ out[1] = Token(INVALID, <<"+">>, [Line |-> 1, Column |-> 2])
  /\ r = 2

\* The last Scan call began at a double quote that no later quote closes.
Unterminated ==
  /\ Scanned
  /\ TokenStart # 0
  /\ input[TokenStart] = "\""
  /\ ClosingQuote(TokenStart) = 0

\* C27: a Scan call that begins at a double quote with no quote after it
\* returns, without a panic, a STRING token holding the text from that quote
\* to the end of the input, and the Scan call after it returns EOF.
C27_UnterminatedString ==
  [][/\ Unterminated' => /\ panic' = "nil"
                         /\ Last(out').Type = T_STRING
                         /\ Last(out').Value
                              = SubSeq(input, TokenStart', Len(input))
                         /\ r' = Len(input)
     /\ Unterminated => /\ Len(out') = Len(out) + 1
                        /\ Last(out').Type = EOF]_vars

\* An open string that runs over a newline to the end of the input was
\* returned whole as a STRING token, and EOF after it.
C27_Witness ==
  /\ input = <<"\"", "I", "\n", "f">>
  /\ Len(out) = 2
  /\ out[1].Type = T_STRING
  /\ out[1].Value = input
  /\ out[2].Type = EOF

\* C28: every Scan call that returns a token other than EOF leaves the read
\* cursor at least one character further than it found it, and once more
\* tokens were returned than the input has characters EOF is among them: at
\* most Len(input) tokens precede EOF and the loop on Scan ends.
C28_EveryTokenAdvances ==
  [][/\ (Len(out') > Len(out) /\ Last(out').Type # EOF) => r' > r
     /\ Len(BeforeEOF') <= Len(input)
     /\ Len(out') > Len(input) => EOFCount(out') > 0]_vars

\* A digit and a parenthesis: the integer call read the parenthesis and put
\* it back, and two tokens, as many as the input has characters, came
\* before EOF.
C28_Witness ==
  /\ input = <<"1", "(">>
  /\ Len(out) = 3
  /\ out[1].Value = <<"1">>
  /\ out[2].Type = PARENS_L
  /\ out[3].Type = EOF
  /\ r = 2

\* The tokens before EOF from the k-th on lie in the input from index i on,
\* one after the other in order, each beginning at the first character that
\* is not whitespace after the one before it: they reach the read cursor
\* when no EOF was returned yet, and only whitespace follows them when it
\* was.
RECURSIVE Tiles(_, _)
Tiles(i, k) ==
  IF k > Len(BeforeEOF)
  THEN IF EOFCount(out) > 0
       THEN r = Len(input) /\ \A j \in i..Len(input) : IsSpace(input[j])
       ELSE i = r + 1
  ELSE LET rest == {j \in i..Len(input) : ~IsSpace(input[j])}
           v    == BeforeEOF[k][2]
       IN  /\ rest # {}
           /\ v # <<>>
           /\ Min(rest) + Len(v) - 1 <= Len(input)
           /\ v = SubSeq(input, Min(rest), Min(rest) + Len(v) - 1)
           /\ Tiles(Min(rest) + Len(v), k + 1)

\* C29: the Values of the tokens returned before EOF, in order, are the
\* input without the whitespace skipped between tokens: every character
\* consumed is whitespace before a token or part of exactly one Value, in
\* input order, so a character put back at the end of a token is the first
\* one the next call reads, and the first of the next Value unless it is
\* whitespace to skip.
C29_ValuesTileTheInput ==
  Scanned => Tiles(1, 1)

\* If(5 was scanned to EOF: the parenthesis that ended the word, and was put
\* back, is the next token.
C29_Witness ==
  /\ input = <<"I", "f", "(", "5">>
  /\ SawEOF
  /\ BeforeEOF = <<<<KEYWORD, <<"I", "f">> >>, <<PARENS_L, <<"(">> >>,
                   <<INT, <<"5">> >> >>
  /\ Tiles(1, 1)

\* The indices of the input that lie inside the Values of the tokens before
\* EOF, from the k-th token on, the k-th beginning at the first character
\* that is not whitespace at or after index i.
RECURSIVE TokenIndices(_, _)
TokenIndices(i, k) ==
  LET rest == {j \in i..Len(input) : ~IsSpace(input[j])}
  IN  IF k > Len(BeforeEOF) \/ rest = {} THEN {}
      ELSE LET e == Min(rest) + Len(BeforeEOF[k][2]) - 1
           IN  (Min(rest)..e) \cup TokenIndices(e + 1, k + 1)

\* The newlines consumed so far between tokens.
SkippedNewlines ==
  {j \in 1..r : input[j] = "\n" /\ j \notin TokenIndices(1, 1)}

\* C30: between Scan calls the column is at least 0 and is the number of
\* characters consumed since the last newline consumed between tokens, or
\* since the start when there is none, and the line is 1 plus the number of
\* those newlines; a newline inside a STRING token counts as a character of
\* the column and not as a line.
C30_ColumnAndLine ==
  panic = "nil"
  => /\ position.Column >= 0
     /\ position.Column = r - Max(SkippedNewlines \cup {0})
     /\ position.Line = 1 + Cardinality(SkippedNewlines)

\* A newline, then an open string with a newline in it: the scanner stands
\* on line 2, three characters after the first newline.
C30_Witness ==
  /\ input = <<"\n", "\"", "\n", "1">>
  /\ Len(out) = 1
  /\ out[1].Type = T_STRING
  /\ out[1].Value = <<"\"", "\n", "1">>
  /\ position = [Line |-> 2, Column |-> 3]

====
